---- MODULE Spec2Model ----
(***************************************************************************)
(* Model of streamlit_app.py: the two cached loaders                       *)
(* (load_azure_table_data, load_loganalytics_data), the script's three     *)
(* tabs with their windowed counts and trend series, and the "Refresh      *)
(* Data" button.                                                           *)
(*                                                                         *)
(* Time is in seconds.  A cell of a DataFrame is a record [t, i, s]:       *)
(* t is the Python/pandas type of the value, i its integer payload and s   *)
(* its string payload.  A row is a function from column names to cells, a  *)
(* DataFrame is [columns |-> set of names, rows |-> sequence of rows].     *)
(***************************************************************************)
EXTENDS Integers, Sequences, FiniteSets, TLC

VARIABLES now, cache, alerts_df, flow_runs_df, pc, last, input, output

vars == <<now, cache, alerts_df, flow_runs_df, pc, last, input, output>>

---------------------------------------------------------------------------
(* Python / pandas values *)

PyNone == [t |-> "none", i |-> 0, s |-> ""]

PyInt(n) == [t |-> "int", i |-> n, s |-> ""]

PyStr(str) == [t |-> "str", i |-> 0, s |-> str]

PyBool(b) == [t |-> "bool", i |-> IF b THEN 1 ELSE 0, s |-> ""]

\* the ISO-8601 text of the instant n (seconds since the epoch, UTC)
IsoStr(n) == [t |-> "str", i |-> n, s |-> "iso8601"]

\* a string that is no date
BadStr == [t |-> "str", i |-> 0, s |-> "not-a-date"]

\* pandas.Timestamp, tz = UTC
Ts(n) == [t |-> "ts", i |-> n, s |-> ""]

NaT == [t |-> "NaT", i |-> 0, s |-> ""]

\* datetime.date, as the number of days since the epoch
PyDate(d) == [t |-> "date", i |-> d, s |-> ""]

SecondsPerDay == 86400

TTL == 300

EmptyDF == [columns |-> {}, rows |-> <<>>]

\* DataFrame.empty: some axis has length 0
IsEmpty(df) == df.columns = {} \/ Len(df.rows) = 0

\* df[col] = cells: cells[k] is the new value of the column in row k
AssignColumn(df, col, cells) ==
    [columns |-> df.columns \cup {col},
     rows |-> [k \in 1..Len(df.rows) |->
                 [c \in df.columns \cup {col} |->
                    IF c = col THEN cells[k] ELSE df.rows[k][c]]]]

---------------------------------------------------------------------------
(* Normalisation steps of the loaders *)

\* pd.to_datetime(cell, utc=True) with errors='raise': does this cell raise
ToDatetimeRaises(cell) == cell.t = "str" /\ cell.s # "iso8601"

\* pd.to_datetime(cell, utc=True) of a cell that does not raise
ToDatetime(cell) ==
    IF cell.t = "str" /\ cell.s = "iso8601" THEN Ts(cell.i)
    ELSE IF cell.t = "ts" THEN cell
    ELSE NaT

\* SEVERITY_LEVELS: the keys are the ints 1, 2, 3
InSeverityLevels(cell) == cell.t = "int" /\ cell.i \in {1, 2, 3}

SEVERITY_LEVELS(cell) ==
    CASE cell.i = 1 -> PyStr("Critical")
      [] cell.i = 2 -> PyStr("Warning")
      [] OTHER      -> PyStr("Info")

\* Series.map(SEVERITY_LEVELS).fillna(original), for one cell
MapSeverity(cell) ==
    IF InSeverityLevels(cell) THEN SEVERITY_LEVELS(cell) ELSE cell

\* Series.astype(bool) on one cell: Python truthiness
AsTypeBool(cell) ==
    CASE cell.t = "bool" -> cell
      [] cell.t = "int"  -> PyBool(cell.i # 0)
      [] cell.t = "str"  -> PyBool(cell.s # "")
      [] OTHER           -> PyBool(FALSE)

\* pd.DataFrame(list of dicts): the columns are the union of the keys
DataFrameOfDicts(entities) ==
    [columns |-> UNION {DOMAIN entities[k] : k \in 1..Len(entities)},
     rows |-> entities]

\* pd.DataFrame(rows, columns=columns)
DataFrameOfRows(rows, columns) ==
    [columns |-> {columns[j] : j \in 1..Len(columns)},
     rows |-> [k \in 1..Len(rows) |->
                 [c \in {columns[j] : j \in 1..Len(columns)} |->
                    rows[k][CHOOSE j \in 1..Len(columns) : columns[j] = c]]]]

ColumnRaises(df, col) ==
    col \in df.columns /\ \E k \in 1..Len(df.rows) : ToDatetimeRaises(df.rows[k][col])

ConvertTimestamps(df, col) ==
    IF col \in df.columns
    THEN AssignColumn(df, col, [k \in 1..Len(df.rows) |-> ToDatetime(df.rows[k][col])])
    ELSE df

ConvertSeverity(df) ==
    IF "SeverityLevel" \in df.columns
    THEN AssignColumn(df, "SeverityLevel",
                      [k \in 1..Len(df.rows) |-> MapSeverity(df.rows[k]["SeverityLevel"])])
    ELSE df

ConvertSuccess(df) ==
    IF "success" \in df.columns
    THEN AssignColumn(df, "success",
                      [k \in 1..Len(df.rows) |-> AsTypeBool(df.rows[k]["success"])])
    ELSE df

\* load_azure_table_data(): reply = [ok, entities]; ok = FALSE is a
\* transport or authentication error of the table client.  The result is
\* [df, msg, raised]: the returned DataFrame, the st.error / st.warning it
\* showed, and whether the call raised instead of returning (every path of
\* the try / except returns)
load_azure_table_data(reply) ==
    IF ~reply.ok
    THEN [df |-> EmptyDF, msg |-> "error", raised |-> FALSE]
    ELSE LET df == DataFrameOfDicts(reply.entities) IN
         IF ColumnRaises(df, "TimeAlertReceived")
         THEN [df |-> EmptyDF, msg |-> "error", raised |-> FALSE]
         ELSE [df |-> ConvertSeverity(ConvertTimestamps(df, "TimeAlertReceived")),
               msg |-> "none", raised |-> FALSE]

\* load_loganalytics_data(): reply = [net, status, json, tables];
\* net = FALSE is a network error, status the HTTP status, json = FALSE a
\* body that is no JSON, tables the 'tables' list of the envelope
load_loganalytics_data(reply) ==
    IF ~reply.net \/ reply.status >= 400
    THEN [df |-> EmptyDF, msg |-> "error", raised |-> FALSE]
    ELSE IF ~reply.json
    THEN [df |-> EmptyDF, msg |-> "error", raised |-> FALSE]
    ELSE IF Len(reply.tables) = 0
    THEN [df |-> EmptyDF, msg |-> "warning", raised |-> FALSE]
    ELSE LET df == DataFrameOfRows(reply.tables[1].rows, reply.tables[1].columns) IN
         IF ColumnRaises(df, "timestamp")
         THEN [df |-> EmptyDF, msg |-> "error", raised |-> FALSE]
         ELSE [df |-> ConvertSuccess(ConvertTimestamps(df, "timestamp")),
               msg |-> "none", raised |-> FALSE]

---------------------------------------------------------------------------
(* Views computed by the tabs *)

Day == SecondsPerDay

Week == 7 * SecondsPerDay

\* Series >= threshold, for one cell: a comparison with NaT is False
GeTimestamp(cell, threshold) == cell.t = "ts" /\ cell.i >= threshold

\* len(df[df[col] >= (pd.Timestamp.now(tz='UTC') - pd.Timedelta(window))])
CountSince(df, col, t, window) ==
    Cardinality({k \in 1..Len(df.rows) : GeTimestamp(df.rows[k][col], t - window)})

\* len(df[(df[col] >= now - window) & (df['success'] == flag)])
CountSinceWhere(df, col, t, window, flag) ==
    Cardinality({k \in 1..Len(df.rows) :
                   /\ GeTimestamp(df.rows[k][col], t - window)
                   /\ df.rows[k]["success"] = PyBool(flag)})

\* the date in a zone one hour east of UTC
DtDate_LocalTime(cell) ==
    IF cell.t = "ts" THEN PyDate((cell.i + 3600) \div SecondsPerDay) ELSE NaT

\* Series.dt.date, for one cell: the UTC calendar date, NaT for NaT
DtDate(cell) ==
    IF cell.t = "ts" THEN PyDate(cell.i \div SecondsPerDay) ELSE NaT

\* df['Date'] = df[col].dt.date
WithDate(df, col) ==
    AssignColumn(df, "Date", [k \in 1..Len(df.rows) |-> DtDate(df.rows[k][col])])

\* the keys groupby keeps: rows whose key is NaT are dropped (dropna=True)
GroupKeys(df, key) ==
    {df.rows[k][key].i : k \in {j \in 1..Len(df.rows) : df.rows[j][key].t = "date"}}

GroupCount(df, key, d) ==
    Cardinality({k \in 1..Len(df.rows) : df.rows[k][key] = PyDate(d)})

RECURSIVE SortedGroups(_, _, _)
\* the groups of keys, in ascending key order (groupby sorts its keys)
SortedGroups(df, key, keys) ==
    IF keys = {} THEN <<>>
    ELSE LET m == CHOOSE x \in keys : \A y \in keys : x <= y IN
         <<[Date |-> m, Count |-> GroupCount(df, key, m)]>>
            \o SortedGroups(df, key, keys \ {m})

\* df.groupby(key).size().reset_index(name='Count')
GroupBySize(df, key) == SortedGroups(df, key, GroupKeys(df, key))

---------------------------------------------------------------------------
(* st.cache_data(ttl=300) *)

AZURE == "load_azure_table_data"

LOGS == "load_loganalytics_data"

Sources == {AZURE, LOGS}

NoEntry == [present |-> FALSE,
            value |-> [df |-> EmptyDF, msg |-> "none", raised |-> FALSE],
            fetchedAt |-> 0]

\* an entry whose age equals the ttl is still served
CacheValid_Inclusive(entry, t) == entry.present /\ t - entry.fetchedAt <= TTL

\* an entry is served while it is younger than the ttl
CacheValid(entry, t) == entry.present /\ t - entry.fetchedAt < TTL

\* the entry after a call of the wrapped function at time t returned value;
\* a call that raises stores nothing
CacheWrite(entry, value, t) ==
    IF value.raised THEN entry
    ELSE [present |-> TRUE, value |-> value, fetchedAt |-> t]

\* the stored object itself is handed out (st.cache_resource)
EntryShared(entry, df) == [entry EXCEPT !.value.df = df]

\* st.cache_data hands out a copy of the stored value: the entry after the
\* caller changed the DataFrame it was given into df
EntryAfterCallerMutation(entry, df) == entry

\* only the alert loader's entries are cleared
CacheClear_AlertsOnly(c) == [s \in Sources |-> IF s = AZURE THEN NoEntry ELSE c[s]]

\* st.cache_data.clear()
CacheClear(c) == [s \in Sources |-> NoEntry]

Load(src, reply) ==
    IF src = AZURE THEN load_azure_table_data(reply) ELSE load_loganalytics_data(reply)

\* the value a call of the cached function src returns at time t
CachedValue(c, src, reply, t) ==
    IF CacheValid(c[src], t) THEN c[src].value ELSE Load(src, reply)

\* the cache after that call
CacheAfterCall(c, src, reply, t) ==
    IF CacheValid(c[src], t) THEN c
    ELSE [c EXCEPT ![src] = CacheWrite(@, Load(src, reply), t)]

---------------------------------------------------------------------------
(* Replies of the two sources *)

MaxRows == 3

MaxNow == 900

\* the instant at which the view computations run
ViewNow == 8 * SecondsPerDay

RECURSIVE SeqsUpTo(_, _)
\* the sequences over S of length at most n
SeqsUpTo(S, n) ==
    IF n = 0 THEN {<<>>}
    ELSE LET shorter == SeqsUpTo(S, n - 1) IN
         shorter \cup {Append(q, x) : q \in {r \in shorter : Len(r) = n - 1}, x \in S}

AzureReply(ok, entities) == [ok |-> ok, entities |-> entities]

QueryReply(net, status, json, tables) ==
    [net |-> net, status |-> status, json |-> json, tables |-> tables]

QueryTable(rows) == [columns |-> <<"timestamp", "success">>, rows |-> rows]

AzureRepliesOver(stamps, codes, n) ==
    {AzureReply(FALSE, <<>>)} \cup
    {AzureReply(TRUE, es) :
        es \in SeqsUpTo([TimeAlertReceived : stamps, SeverityLevel : codes], n)}

QueryRepliesOver(stamps, flags, n) ==
    {QueryReply(FALSE, 0, FALSE, <<>>), QueryReply(TRUE, 500, FALSE, <<>>),
     QueryReply(TRUE, 200, FALSE, <<>>), QueryReply(TRUE, 200, TRUE, <<>>)} \cup
    {QueryReply(TRUE, 200, TRUE, <<QueryTable(rows)>>) :
        rows \in SeqsUpTo({<<a, b>> : a \in stamps, b \in flags}, n)}

\* what the sources may answer while the dashboard runs
SampleReplies(src) ==
    IF src = AZURE
    THEN AzureRepliesOver({IsoStr(0), BadStr}, {PyInt(1)}, 1)
    ELSE QueryRepliesOver({IsoStr(0), BadStr}, {PyStr("0")}, 1)

\* the fetch itself failed: transport / authentication error of the table
\* client, network error or HTTP error status of the query API
FetchFails(src, reply) ==
    IF src = AZURE THEN ~reply.ok ELSE (~reply.net \/ reply.status >= 400)

\* the fetch succeeded and the load still showed st.error
NormalizeFails(src, reply) == ~FetchFails(src, reply) /\ Load(src, reply).msg = "error"

Outcome(src, reply) ==
    IF FetchFails(src, reply) THEN "fetch_failed"
    ELSE IF NormalizeFails(src, reply) THEN "normalize_failed"
    ELSE "loaded"

---------------------------------------------------------------------------
(* The script: tab1, tab2, tab3, the Refresh Data button *)

NoOp == [op |-> "start", src |-> "", hit |-> FALSE, fetched |-> FALSE,
         outcome |-> "", at |-> 0, age |-> -1, prevOp |-> "", prevAge |-> -1,
         mutated |-> FALSE, count |-> 0, raised |-> FALSE, msg |-> "none"]

NoInput == [kind |-> "none"]

NoOutput == [kind |-> "none"]

Age(entry, t) == IF entry.present THEN t - entry.fetchedAt ELSE -1

\* the record of a call of the cached function src
GetOp(src, reply, old) ==
    [op |-> "get", src |-> src,
     hit |-> CacheValid(cache[src], now),
     fetched |-> ~CacheValid(cache[src], now),
     outcome |-> IF CacheValid(cache[src], now) THEN "hit" ELSE Outcome(src, reply),
     at |-> now, age |-> Age(cache[src], now),
     prevOp |-> last.op, prevAge |-> last.age,
     mutated |-> "Date" \in old.columns, count |-> 0,
     raised |-> CachedValue(cache, src, reply, now).raised,
     msg |-> CachedValue(cache, src, reply, now).msg]

ViewOp(name, src, n) ==
    [NoOp EXCEPT !.op = name, !.src = src, !.at = now, !.count = n, !.prevOp = last.op]

Init ==
    /\ now = 0
    /\ cache = [s \in Sources |-> NoEntry]
    /\ alerts_df = EmptyDF
    /\ flow_runs_df = EmptyDF
    /\ pc = "tab1"
    /\ last = NoOp
    /\ input = NoInput
    /\ output = NoOutput

\* alerts_df = load_azure_table_data() in tab1
Tab1Load(reply) ==
    /\ pc = "tab1"
    /\ alerts_df' = CachedValue(cache, AZURE, reply, now).df
    /\ cache' = CacheAfterCall(cache, AZURE, reply, now)
    /\ last' = GetOp(AZURE, reply, alerts_df)
    /\ pc' = "tab1_views"
    /\ UNCHANGED <<now, flow_runs_df, input, output>>

\* the metrics, charts and recent activity of tab1
Tab1Views ==
    /\ pc = "tab1_views"
    /\ last' = ViewOp("tab1_views", AZURE,
                      IF IsEmpty(alerts_df) THEN 0
                      ELSE CountSince(alerts_df, "TimeAlertReceived", now, Week))
    /\ pc' = "tab2"
    /\ UNCHANGED <<now, cache, alerts_df, flow_runs_df, input, output>>

\* alerts_df = load_azure_table_data() in tab2
Tab2Load(reply) ==
    /\ pc = "tab2"
    /\ alerts_df' = CachedValue(cache, AZURE, reply, now).df
    /\ cache' = CacheAfterCall(cache, AZURE, reply, now)
    /\ last' = GetOp(AZURE, reply, alerts_df)
    /\ pc' = "tab2_views"
    /\ UNCHANGED <<now, flow_runs_df, input, output>>

\* the filtered table and the alert trend of tab2; the trend adds the
\* 'Date' column to alerts_df itself
Tab2Views ==
    /\ pc = "tab2_views"
    /\ alerts_df' = IF ~IsEmpty(alerts_df) /\ "TimeAlertReceived" \in alerts_df.columns
                    THEN WithDate(alerts_df, "TimeAlertReceived")
                    ELSE alerts_df
    /\ cache' = [cache EXCEPT ![AZURE] = EntryAfterCallerMutation(@, alerts_df')]
    /\ last' = ViewOp("tab2_views", AZURE,
                      IF "Date" \in alerts_df'.columns
                      THEN Len(GroupBySize(alerts_df', "Date"))
                      ELSE 0)
    /\ pc' = "tab3"
    /\ UNCHANGED <<now, flow_runs_df, input, output>>

\* flow_runs_df = load_loganalytics_data() in tab3
Tab3Load(reply) ==
    /\ pc = "tab3"
    /\ flow_runs_df' = CachedValue(cache, LOGS, reply, now).df
    /\ cache' = CacheAfterCall(cache, LOGS, reply, now)
    /\ last' = GetOp(LOGS, reply, flow_runs_df)
    /\ pc' = "tab3_views"
    /\ UNCHANGED <<now, alerts_df, input, output>>

\* the metrics, charts, flow trend and failed runs of tab3; the trend adds
\* the 'Date' column to flow_runs_df itself
Tab3Views ==
    /\ pc = "tab3_views"
    /\ flow_runs_df' = IF ~IsEmpty(flow_runs_df) /\ "timestamp" \in flow_runs_df.columns
                       THEN WithDate(flow_runs_df, "timestamp")
                       ELSE flow_runs_df
    /\ cache' = [cache EXCEPT ![LOGS] = EntryAfterCallerMutation(@, flow_runs_df')]
    /\ last' = ViewOp("tab3_views", LOGS,
                      IF IsEmpty(flow_runs_df) THEN 0
                      ELSE CountSinceWhere(flow_runs_df, "timestamp", now, Day, FALSE))
    /\ pc' = "button"
    /\ UNCHANGED <<now, alerts_df, input, output>>

\* if st.button("Refresh Data"): clear the cache and rerun; a run whose
\* button was not clicked ends, and the next interaction runs the script again
Button(clicked) ==
    /\ pc = "button"
    /\ cache' = IF clicked THEN CacheClear(cache) ELSE cache
    /\ last' = [NoOp EXCEPT !.op = IF clicked THEN "refresh" ELSE "rerun",
                            !.at = now, !.age = Age(cache[AZURE], now),
                            !.prevOp = last.op]
    /\ pc' = "tab1"
    /\ UNCHANGED <<now, alerts_df, flow_runs_df, input, output>>

\* time passes
Tick(dt) ==
    /\ pc \in {"tab1", "tab1_views", "tab2", "tab2_views", "tab3", "tab3_views", "button"}
    /\ now + dt <= MaxNow
    /\ now' = now + dt
    /\ UNCHANGED <<cache, alerts_df, flow_runs_df, pc, last, input, output>>

Next ==
    \/ \E reply \in SampleReplies(AZURE) : Tab1Load(reply)
    \/ Tab1Views
    \/ \E reply \in SampleReplies(AZURE) : Tab2Load(reply)
    \/ Tab2Views
    \/ \E reply \in SampleReplies(LOGS) : Tab3Load(reply)
    \/ Tab3Views
    \/ \E clicked \in BOOLEAN : Button(clicked)
    \/ \E dt \in {TTL - 1, TTL} : Tick(dt)

Spec == Init /\ [][Next]_vars

---------------------------------------------------------------------------
(* Properties of the cache *)

GetStep == pc \in {"tab1", "tab2", "tab3"} /\ pc' # pc

ViewStep == pc \in {"tab1_views", "tab2_views", "tab3_views"} /\ pc' # pc

RefreshStep == pc = "button" /\ last'.op = "refresh"

\* the DataFrame the last call of a cached function gave the script
Returned == IF last.src = AZURE THEN alerts_df ELSE flow_runs_df

\* C1: a call returns the cached table, without contacting the source,
\* exactly when an entry exists whose age is below 300 s; otherwise (no
\* entry, or age >= 300 s) it fetches, returns the fetched table and stores
\* it with fetchedAt = now.
C1_TtlGet ==
    [][GetStep =>
        LET s == last'.src
            e == cache[s]
        IN  IF e.present /\ now - e.fetchedAt < TTL
            THEN /\ last'.hit /\ ~last'.fetched
                 /\ Returned' = e.value.df
                 /\ cache' = cache
            ELSE /\ ~last'.hit /\ last'.fetched
                 /\ cache'[s].present
                 /\ cache'[s].fetchedAt = now
                 /\ cache'[s].value.df = Returned'
                 /\ \E reply \in SampleReplies(s) : Returned' = Load(s, reply).df]_vars

\* an entry whose age reached exactly the ttl was fetched again
C1_Witness ==
    /\ last.op = "get" /\ last.age = TTL /\ last.fetched
    /\ cache[last.src].fetchedAt = last.at /\ last.at = now

\* C2: Refresh Data leaves no entry for either source; a source without an
\* entry gets one only by a call that fetches, so the next call for any
\* source after a refresh fetches, however young the cleared entry was.
C2_InvalidateAll ==
    [][/\ RefreshStep => \A s \in Sources : ~cache'[s].present
       /\ \A s \in Sources :
            /\ (GetStep /\ last'.src = s /\ ~cache[s].present)
                  => (last'.fetched /\ ~last'.hit)
            /\ (~cache[s].present /\ cache'[s].present)
                  => (GetStep /\ last'.src = s /\ last'.fetched)]_vars

\* the call right after a refresh that cleared an entry younger than the
\* ttl fetched
C2_Witness ==
    /\ last.op = "get" /\ last.prevOp = "refresh"
    /\ last.prevAge >= 0 /\ last.prevAge < TTL
    /\ last.fetched /\ last.age = -1

\* C3: a call whose fetch fails gives the script a failure, never an empty
\* DataFrame (which is what a source without records gives).
C3_FetchFailureIsReported ==
    (last.op = "get" /\ last.outcome = "fetch_failed")
        => (last.raised /\ ~IsEmpty(Returned))

\* C4: a load that failed leaves no cache entry made by that attempt.
C4_FailedLoadWritesNothing ==
    (last.op = "get" /\ last.fetched
        /\ last.outcome \in {"fetch_failed", "normalize_failed"})
        => ~(cache[last.src].present /\ cache[last.src].fetchedAt = last.at)

\* C10: the views fetch nothing and leave the cache as it is, no cached
\* table ever has the 'Date' column of the trend, and a call served from the
\* cache returns the stored table.
C10_ViewsLeaveCache ==
    /\ [](\A s \in Sources : "Date" \notin cache[s].value.df.columns)
    /\ [][ViewStep => (cache' = cache /\ ~last'.fetched)]_vars
    /\ [][(GetStep /\ last'.hit) =>
            /\ Returned' = cache[last'.src].value.df
            /\ "Date" \notin Returned'.columns]_vars

\* a call served from the cache after the trend had added 'Date' to the
\* table returned by the call before
C10_Witness ==
    /\ last.op = "get" /\ last.hit /\ last.mutated
    /\ ~IsEmpty(Returned) /\ "Date" \notin Returned.columns

---------------------------------------------------------------------------
(* The loaders on their own: every reply of a source, loaded once *)

NormAzureReplies ==
    AzureRepliesOver({IsoStr(0), BadStr, PyNone},
                     {PyInt(1), PyInt(3), PyInt(9), PyNone}, MaxRows)

NormQueryReplies ==
    QueryRepliesOver({IsoStr(0), BadStr},
                     {PyInt(0), PyInt(1), PyStr("0"), PyStr("true"), PyStr("false"),
                      PyBool(TRUE), PyBool(FALSE)}, MaxRows)

InitPure(p, t) ==
    /\ now = t
    /\ cache = [s \in Sources |-> NoEntry]
    /\ alerts_df = EmptyDF
    /\ flow_runs_df = EmptyDF
    /\ pc = p
    /\ last = NoOp
    /\ output = NoOutput

InitNorm ==
    /\ InitPure("load", 0)
    /\ \/ \E r \in NormAzureReplies : input = [kind |-> "reply", src |-> AZURE, reply |-> r]
       \/ \E r \in NormQueryReplies : input = [kind |-> "reply", src |-> LOGS, reply |-> r]

\* one call of load_azure_table_data() on the reply
LoadAzureTableData ==
    /\ pc = "load" /\ input.src = AZURE
    /\ output' = [kind |-> "loaded", value |-> load_azure_table_data(input.reply)]
    /\ pc' = "loaded"
    /\ UNCHANGED <<now, cache, alerts_df, flow_runs_df, last, input>>

\* one call of load_loganalytics_data() on the reply
LoadLogAnalyticsData ==
    /\ pc = "load" /\ input.src = LOGS
    /\ output' = [kind |-> "loaded", value |-> load_loganalytics_data(input.reply)]
    /\ pc' = "loaded"
    /\ UNCHANGED <<now, cache, alerts_df, flow_runs_df, last, input>>

NextNorm == LoadAzureTableData \/ LoadLogAnalyticsData

SpecNorm == InitNorm /\ [][NextNorm]_vars

\* the raw records of a reply that carries records, as (timestamp, value)
\* pairs: value is the severity code of an alert, the success of a flow run
RawRecords(src, reply) ==
    IF src = AZURE
    THEN [k \in 1..Len(reply.entities) |->
            <<reply.entities[k].TimeAlertReceived, reply.entities[k].SeverityLevel>>]
    ELSE reply.tables[1].rows

HasRecords(src, reply) ==
    /\ ~FetchFails(src, reply)
    /\ src = LOGS => (reply.json /\ Len(reply.tables) > 0)

TimeColumn(src) == IF src = AZURE THEN "TimeAlertReceived" ELSE "timestamp"

\* the instant a raw timestamp stands for, null when it stands for none
ExpectedTimestamp(cell) ==
    IF cell.t = "str" /\ cell.s = "iso8601" THEN Ts(cell.i) ELSE NaT

\* the truth a raw success value stands for
ExpectedSuccess(cell) ==
    \/ cell.t \in {"int", "bool"} /\ cell.i = 1
    \/ cell.t = "str" /\ cell.s = "true"

ExpectedSeverity(cell) ==
    IF cell = PyInt(1) THEN PyStr("Critical")
    ELSE IF cell = PyInt(2) THEN PyStr("Warning")
    ELSE IF cell = PyInt(3) THEN PyStr("Info")
    ELSE cell

\* C5: whatever the timestamp fields hold, the loaded table has every
\* record, an unparseable timestamp being null and the others parsed.
C5_BadTimestampBecomesNull ==
    (output.kind = "loaded" /\ HasRecords(input.src, input.reply)) =>
        LET raw == RawRecords(input.src, input.reply)
            df == output.value.df
        IN  /\ Len(df.rows) = Len(raw)
            /\ \A k \in 1..Len(raw) :
                 df.rows[k][TimeColumn(input.src)] = ExpectedTimestamp(raw[k][1])

\* C6: in a loaded flow-run table, success is false for 0, "0", "false",
\* False and true for 1, "true", True.
C6_SuccessCoercion ==
    (output.kind = "loaded" /\ input.src = LOGS /\ HasRecords(LOGS, input.reply)) =>
        LET raw == RawRecords(LOGS, input.reply)
            df == output.value.df
        IN  Len(df.rows) = Len(raw) =>
              \A k \in 1..Len(raw) :
                 df.rows[k]["success"] = PyBool(ExpectedSuccess(raw[k][2]))

\* C7: the loaded alert table has every record, its severity the label of
\* a code that is a key of SEVERITY_LEVELS and the raw value otherwise.
C7_SeverityMapping ==
    (output.kind = "loaded" /\ input.src = AZURE /\ HasRecords(AZURE, input.reply)) =>
        LET raw == RawRecords(AZURE, input.reply)
            df == output.value.df
        IN  /\ Len(df.rows) = Len(raw)
            /\ \A k \in 1..Len(raw) :
                 df.rows[k]["SeverityLevel"] = ExpectedSeverity(raw[k][2])

---------------------------------------------------------------------------
(* The views on their own: every loaded table, viewed at the instant ViewNow *)

ViewInstants ==
    {ViewNow - Week - 1, ViewNow - Week, ViewNow - Day - 1, ViewNow - Day,
     ViewNow, ViewNow + 1}

ViewStamps == {PyNone} \cup {IsoStr(n) : n \in ViewInstants}

ViewAlertTables ==
    {load_azure_table_data(r).df :
        r \in {q \in AzureRepliesOver(ViewStamps, {PyInt(1)}, MaxRows) : q.ok}}

ViewFlowTables ==
    {load_loganalytics_data(r).df :
        r \in {q \in QueryRepliesOver(ViewStamps, {PyInt(0), PyInt(1)}, MaxRows) :
                 ~FetchFails(LOGS, q)}}

ViewOutput(kind, week, day, failed, succeeded, series) ==
    [kind |-> kind, week |-> week, day |-> day, failed |-> failed,
     succeeded |-> succeeded, series |-> series]

InitView ==
    /\ InitPure("view", ViewNow)
    /\ \/ \E df \in ViewAlertTables : input = [kind |-> "table", src |-> AZURE, df |-> df]
       \/ \E df \in ViewFlowTables : input = [kind |-> "table", src |-> LOGS, df |-> df]

\* tab1: "Alerts - last 7 days" and "Alerts - last 24 hours"
AlertWindowCounts ==
    /\ pc = "view" /\ input.src = AZURE /\ ~IsEmpty(input.df)
    /\ output' = ViewOutput("counts",
                            CountSince(input.df, "TimeAlertReceived", now, Week),
                            CountSince(input.df, "TimeAlertReceived", now, Day),
                            0, 0, <<>>)
    /\ UNCHANGED <<now, cache, alerts_df, flow_runs_df, pc, last, input>>

\* tab3: "Total Runs - last 7 days", "Failed Runs - last 24 hours",
\* "Successful Runs - last 24 hours" and the runs of the last 24 hours
FlowWindowCounts ==
    /\ pc = "view" /\ input.src = LOGS /\ ~IsEmpty(input.df)
    /\ output' = ViewOutput("counts",
                            CountSince(input.df, "timestamp", now, Week),
                            CountSince(input.df, "timestamp", now, Day),
                            CountSinceWhere(input.df, "timestamp", now, Day, FALSE),
                            CountSinceWhere(input.df, "timestamp", now, Day, TRUE),
                            <<>>)
    /\ UNCHANGED <<now, cache, alerts_df, flow_runs_df, pc, last, input>>

\* tab2: "Alert Creation Trend"
AlertTrend ==
    /\ pc = "view" /\ input.src = AZURE
    /\ "TimeAlertReceived" \in input.df.columns /\ ~IsEmpty(input.df)
    /\ output' = ViewOutput("trend", 0, 0, 0, 0,
                            GroupBySize(WithDate(input.df, "TimeAlertReceived"), "Date"))
    /\ UNCHANGED <<now, cache, alerts_df, flow_runs_df, pc, last, input>>

\* tab3: "Power Automate Flow Run Trend"
FlowTrend ==
    /\ pc = "view" /\ input.src = LOGS
    /\ "timestamp" \in input.df.columns /\ ~IsEmpty(input.df)
    /\ output' = ViewOutput("trend", 0, 0, 0, 0,
                            GroupBySize(WithDate(input.df, "timestamp"), "Date"))
    /\ UNCHANGED <<now, cache, alerts_df, flow_runs_df, pc, last, input>>

NextView == AlertWindowCounts \/ FlowWindowCounts \/ AlertTrend \/ FlowTrend

SpecView == InitView /\ [][NextView]_vars

\* the timestamps of the table the view was computed over
ViewTimes ==
    [k \in 1..Len(input.df.rows) |-> input.df.rows[k][TimeColumn(input.src)]]

\* the number of rows whose timestamp lies in [t - window, t]
RowsInWindow(window) ==
    Cardinality({k \in 1..Len(ViewTimes) :
                   /\ ViewTimes[k].t = "ts"
                   /\ now - window <= ViewTimes[k].i
                   /\ ViewTimes[k].i <= now})

\* C8: the 7-day and the 24-hour count are the numbers of rows whose
\* timestamp t satisfies now - W <= t <= now; null and future timestamps
\* do not count.
C8_WindowedCount ==
    output.kind = "counts" =>
        /\ output.week = RowsInWindow(Week)
        /\ output.day = RowsInWindow(Day)
        /\ input.src = LOGS => output.failed + output.succeeded = RowsInWindow(Day)

\* the days on which a timestamp of the model can fall
ViewDates == 0..((ViewNow \div SecondsPerDay) + 1)

\* the number of rows whose timestamp falls on day d (UTC)
RowsOnDate(d) ==
    Cardinality({k \in 1..Len(ViewTimes) :
                   /\ ViewTimes[k].t = "ts"
                   /\ d * SecondsPerDay <= ViewTimes[k].i
                   /\ ViewTimes[k].i < (d + 1) * SecondsPerDay})

\* C9: the trend has exactly one pair for each UTC date some row falls on
\* and none for any other date, in strictly ascending date order, each
\* count being the number of rows on that date; rows with a null timestamp
\* count for no date.
C9_TrendSeries ==
    output.kind = "trend" =>
        LET series == output.series IN
        /\ \A j \in 1..Len(series) :
             /\ series[j].Date \in ViewDates
             /\ series[j].Count = RowsOnDate(series[j].Date)
             /\ series[j].Count > 0
        /\ \A d \in ViewDates :
             RowsOnDate(d) > 0 => \E j \in 1..Len(series) : series[j].Date = d
        /\ \A j, k \in 1..Len(series) : j < k => series[j].Date < series[k].Date

\* a trend over a table with rows on two dates and a row without timestamp
C9_Witness ==
    /\ output.kind = "trend"
    /\ Len(output.series) = 2
    /\ \E k \in 1..Len(ViewTimes) : ViewTimes[k] = NaT

====
